---- MODULE Spec2Model ----
(***************************************************************************)
(* Model of pubmed_parser's MEDLINE extraction engine                      *)
(* (pubmed_parser/medline_parser.py and pubmed_parser/utils.py).           *)
(*                                                                         *)
(* Python strings are sequences of one-character strings; a character      *)
(* outside ASCII is written as its code point ("U+00A0").  Python's None   *)
(* is the one-element sequence <<"None">>, numpy's nan is <<"nan">>.       *)
(* A call either returns a value or raises: Ret(v) / Raise(e).             *)
(***************************************************************************)
EXTENDS Integers, Sequences, FiniteSets, TLC

VARIABLES input, output, pc

vars == <<input, output, pc>>

(***************************************************************************)
(* Python values                                                           *)
(***************************************************************************)
None == <<"None">>
NaN == <<"nan">>

Ret(v) == [raised |-> FALSE, value |-> v]
Raise(e) == [raised |-> TRUE, value |-> <<e>>]

NotRun == [raised |-> FALSE, value |-> <<"not run">>]

Range(s) == {s[i] : i \in 1..Len(s)}

\* all sequences over S of length 0..n
SeqsUpTo(S, n) == UNION {[1..k -> S] : k \in 0..n}

(***************************************************************************)
(* str methods used by the parser                                          *)
(***************************************************************************)
Digits == <<"0", "1", "2", "3", "4", "5", "6", "7", "8", "9">>

DigitSet == Range(Digits)

\* characters for which str.isspace() holds, i.e. what str.strip() removes
PyWhitespace ==
  {" ", "\t", "\n", "\r", "\f", "U+000B", "U+001C", "U+001D", "U+001E",
   "U+001F", "U+0085", "U+00A0", "U+1680", "U+2000", "U+2001", "U+2002",
   "U+2003", "U+2004", "U+2005", "U+2006", "U+2007", "U+2008", "U+2009",
   "U+200A", "U+2028", "U+2029", "U+202F", "U+205F", "U+3000"}

RECURSIVE LStrip(_)
LStrip(s) ==
  IF s = <<>> THEN <<>>
  ELSE IF Head(s) \in PyWhitespace THEN LStrip(Tail(s)) ELSE s

RECURSIVE RStrip(_)
RStrip(s) ==
  IF s = <<>> THEN <<>>
  ELSE IF s[Len(s)] \in PyWhitespace THEN RStrip(SubSeq(s, 1, Len(s) - 1))
  ELSE s

\* s.strip()
Strip(s) == RStrip(LStrip(s))

\* s.replace(c, r) for a one-character c
RECURSIVE Replace(_, _, _)
Replace(s, c, r) ==
  IF s = <<>> THEN <<>>
  ELSE (IF Head(s) = c THEN r ELSE <<Head(s)>>) \o Replace(Tail(s), c, r)

\* s.isdigit()
IsDigit(s) == s # <<>> /\ \A i \in 1..Len(s) : s[i] \in DigitSet

DigitValue(c) == (CHOOSE i \in 1..10 : Digits[i] = c) - 1

\* int(s) for a digit string
RECURSIVE PyInt(_)
PyInt(s) ==
  IF s = <<>> THEN 0
  ELSE 10 * PyInt(SubSeq(s, 1, Len(s) - 1)) + DigitValue(s[Len(s)])

\* str(n) for n >= 0
RECURSIVE PyStr(_)
PyStr(n) ==
  IF n < 10 THEN <<Digits[n + 1]>>
  ELSE PyStr(n \div 10) \o <<Digits[(n % 10) + 1]>>

\* sep.join(parts)
RECURSIVE Join(_, _)
Join(sep, parts) ==
  IF parts = <<>> THEN <<>>
  ELSE IF Len(parts) = 1 THEN parts[1]
  ELSE parts[1] \o sep \o Join(sep, Tail(parts))

\* needle in s
Contains(s, needle) ==
  \E i \in 1..(Len(s) - Len(needle) + 1) :
    SubSeq(s, i, i + Len(needle) - 1) = needle

UpperCase ==
  <<"A", "B", "C", "D", "E", "F", "G", "H", "I", "J", "K", "L", "M",
    "N", "O", "P", "Q", "R", "S", "T", "U", "V", "W", "X", "Y", "Z">>

LowerCase ==
  <<"a", "b", "c", "d", "e", "f", "g", "h", "i", "j", "k", "l", "m",
    "n", "o", "p", "q", "r", "s", "t", "u", "v", "w", "x", "y", "z">>

LowerChar(c) ==
  IF \E i \in 1..26 : UpperCase[i] = c
  THEN LowerCase[CHOOSE i \in 1..26 : UpperCase[i] = c]
  ELSE c

\* s.lower()
Lower(s) == [i \in 1..Len(s) |-> LowerChar(s[i])]

(***************************************************************************)
(* utils.month_or_day_formater                                             *)
(***************************************************************************)
\* calendar.month_abbr: index 0 is the empty string
month_abbr ==
  << <<>>,
     <<"J", "a", "n">>, <<"F", "e", "b">>, <<"M", "a", "r">>,
     <<"A", "p", "r">>, <<"M", "a", "y">>, <<"J", "u", "n">>,
     <<"J", "u", "l">>, <<"A", "u", "g">>, <<"S", "e", "p">>,
     <<"O", "c", "t">>, <<"N", "o", "v">>, <<"D", "e", "c">> >>

\* filter(None, seq): the truthy elements
FilterNone(seq) == SelectSeq(seq, LAMBDA x : x # <<>> /\ x # None)

\* strptime(s, '%b').tm_mon: %b matches the abbreviation in any letter case;
\* 0 stands for the ValueError of an unmatched string
strptime_tm_mon(s) ==
  IF \E i \in 2..13 : Lower(month_abbr[i]) = Lower(s)
  THEN (CHOOSE i \in 2..13 : Lower(month_abbr[i]) = Lower(s)) - 1
  ELSE 0

\* seeded fault: the "0" padding of one-digit numbers is dropped
month_or_day_formater_nopad(month_or_day) ==
  IF month_or_day = None THEN Raise("AttributeError")
  ELSE IF Replace(month_or_day, ".", <<>>) \in Range(FilterNone(month_abbr))
  THEN Ret(PyStr(strptime_tm_mon(Replace(month_or_day, ".", <<>>))))
  ELSE IF IsDigit(Strip(month_or_day)) /\ "." \notin Range(month_or_day)
  THEN Ret(PyStr(PyInt(Strip(month_or_day))))
  ELSE Ret(None)

month_or_day_formater(month_or_day) ==
  IF month_or_day = None THEN Raise("AttributeError")
  ELSE
    LET pad(to_format) ==
          (IF to_format < 10 THEN <<"0">> ELSE <<>>) \o PyStr(to_format)
    IN IF Replace(month_or_day, ".", <<>>) \in Range(FilterNone(month_abbr))
       THEN Ret(pad(strptime_tm_mon(Replace(month_or_day, ".", <<>>))))
       ELSE IF IsDigit(Strip(month_or_day)) /\ "." \notin Range(month_or_day)
       THEN Ret(pad(PyInt(Strip(month_or_day))))
       ELSE Ret(None)

(***************************************************************************)
(* SpecMonth: month_or_day_formater applied to one string                  *)
(***************************************************************************)
MaxMonthLen == 3

MonthAlphabet == {"J", "a", "n", "O", "c", "t", ".", "1", "3", " "}

MonthExamples ==
  { <<"J", "A", "N", ".">>, <<"j", "a", "n">>, <<"J", "a", "n", ".">>,
    <<"F", "o", "o">>, <<"D", "e", "c">>, <<"d", "E", "C", ".">>,
    <<"0", "0", "7">>, <<"1", "2">>, <<"9">>, <<"1", "0">> }

MonthInputs == SeqsUpTo(MonthAlphabet, MaxMonthLen) \cup MonthExamples

InitMonth ==
  /\ input \in MonthInputs
  /\ output = NotRun
  /\ pc = "start"

FormatMonthOrDay ==
  /\ pc = "start"
  /\ output' = month_or_day_formater(input)
  /\ pc' = "done"
  /\ UNCHANGED input

NextMonth == FormatMonthOrDay

SpecMonth == InitMonth /\ [][NextMonth]_vars

(***************************************************************************)
(* C4 (as stated): a month abbreviation in any letter case, optionally     *)
(* followed by a period, resolves to its two-digit month number, a numeric *)
(* month to its zero-padded form ("Jan", "JAN.", "1" give "01"), and "13"  *)
(* and "Foo" resolve to absent.                                            *)
(***************************************************************************)
TwoDigit == [n \in 1..12 |-> <<Digits[(n \div 10) + 1], Digits[(n % 10) + 1]>>]

Abbr(n) == month_abbr[n + 1]

Numeral(n) == IF n < 10 THEN <<Digits[n + 1]>> ELSE TwoDigit[n]

\* a digit string without its leading zeros, filled with zeros to two digits
RECURSIVE DropZeros(_)
DropZeros(s) ==
  IF s # <<>> /\ Head(s) = "0" THEN DropZeros(Tail(s)) ELSE s

ZeroPadded(s) ==
  IF Len(DropZeros(s)) = 0 THEN <<"0", "0">>
  ELSE IF Len(DropZeros(s)) = 1 THEN <<"0">> \o DropZeros(s)
  ELSE DropZeros(s)

C4_AnyCase ==
  pc = "done" =>
    /\ \A n \in 1..12 :
         (Lower(input) = Lower(Abbr(n)) \/ Lower(input) = Lower(Abbr(n) \o <<".">>))
           => output = Ret(TwoDigit[n])
    /\ \A n \in 1..12 : input = Numeral(n) => output = Ret(TwoDigit[n])
    /\ input \in {<<"1", "3">>, <<"F", "o", "o">>} => output = Ret(None)

(***************************************************************************)
(* C4 (amended): a month abbreviation spelled as in calendar.month_abbr    *)
(* ("Jan"), optionally followed by a period, resolves to its two-digit     *)
(* month number and a numeric string to its zero-padded form, so "Jan",    *)
(* "Jan." and "1" give "01"; an abbreviation in another letter case        *)
(* ("JAN.") and "Foo" resolve to absent; "13" resolves to "13".            *)
(***************************************************************************)
C4_ExactCase ==
  pc = "done" =>
    /\ \A n \in 1..12 :
         input \in {Abbr(n), Abbr(n) \o <<".">>} => output = Ret(TwoDigit[n])
    /\ \A n \in 1..12 :
         /\ input \notin {Abbr(n), Abbr(n) \o <<".">>}
         /\ (Lower(input) = Lower(Abbr(n)) \/ Lower(input) = Lower(Abbr(n) \o <<".">>))
         => output = Ret(None)
    /\ IsDigit(input) => output = Ret(ZeroPadded(input))
    /\ input = <<"1">> => output = Ret(<<"0", "1">>)
    /\ input = <<"1", "3">> => output = Ret(<<"1", "3">>)
    /\ input = <<"F", "o", "o">> => output = Ret(None)

C4_Witness ==
  /\ pc = "done"
  /\ input = <<"J", "A", "N", ".">>
  /\ output = Ret(None)

(***************************************************************************)
(* Whitespace normalization of title and abstract                          *)
(***************************************************************************)
inp_list ==
  << <<" ", "U+00A0", "U+180E", "U+2000", "U+2001", "U+2002", "U+2003",
       "U+2004", "U+2005", "U+2006", "U+2007", "U+2008", "U+2009", "U+200A",
       "U+200B", "U+202F", "U+205F", "U+3000", "U+FEFF">>,
     <<" ">> >>

RECURSIVE ReplaceEach(_, _, _)
ReplaceEach(chars, replacement, s) ==
  IF chars = <<>> THEN s
  ELSE ReplaceEach(Tail(chars), replacement, Replace(s, Head(chars), replacement))

replace_multiple(list, inp_string) ==
  ReplaceEach(list[1], list[2], inp_string)

\* re.sub(' +', ' ', s)
RECURSIVE CollapseSpaces(_)
CollapseSpaces(s) ==
  IF Len(s) < 2 THEN s
  ELSE IF s[1] = " " /\ s[2] = " " THEN CollapseSpaces(Tail(s))
  ELSE <<Head(s)>> \o CollapseSpaces(Tail(s))

\* seeded fault: the space table is substituted after the runs were collapsed
normalize_whitespace_late_table(text) ==
  Strip(replace_multiple(inp_list, CollapseSpaces(Replace(text, "\n", <<>>))))

\* replace_multiple(inp_list, x); re.sub(' +', ' ', x.replace("\n", "")).strip()
normalize_whitespace(text) ==
  Strip(CollapseSpaces(Replace(replace_multiple(inp_list, text), "\n", <<>>)))

(***************************************************************************)
(* SpecNorm: the normalization applied to a string, then to its result     *)
(***************************************************************************)
MaxNormLen == 5

NormAlphabet == {" ", "\n", "\t", "U+00A0", "U+FEFF", "a"}

InitNorm ==
  /\ input \in SeqsUpTo(NormAlphabet, MaxNormLen)
  /\ output = [once |-> None, twice |-> None]
  /\ pc = "start"

NormalizeOnce ==
  /\ pc = "start"
  /\ output' = [output EXCEPT !.once = normalize_whitespace(input)]
  /\ pc' = "once"
  /\ UNCHANGED input

NormalizeTwice ==
  /\ pc = "once"
  /\ output' = [output EXCEPT !.twice = normalize_whitespace(output.once)]
  /\ pc' = "twice"
  /\ UNCHANGED input

NextNorm == NormalizeOnce \/ NormalizeTwice

SpecNorm == InitNorm /\ [][NextNorm]_vars

(***************************************************************************)
(* C9: the whitespace normalization is idempotent: normalizing a           *)
(* normalized string gives the same string.                                *)
(***************************************************************************)
C9_Idempotent == pc = "twice" => output.twice = output.once

C9_Witness ==
  /\ pc = "twice"
  /\ input = <<"a", "U+00A0", "\n", " ">>
  /\ output.once = <<"a">>
  /\ output.twice = <<"a">>

(***************************************************************************)
(* Elements of the citation tree                                           *)
(*                                                                         *)
(* An optional leaf element is Absent (find() gives None), or its .text:   *)
(* None for an element without text, else the string.                      *)
(***************************************************************************)
Absent == <<"absent">>

\* first match of re.findall(r'\d{4}', text): <<>> stands for "no match"
RECURSIVE findall_d4(_)
findall_d4(text) ==
  IF Len(text) < 4 THEN <<>>
  ELSE IF \A i \in 1..4 : text[i] \in DigitSet
  THEN <<SubSeq(text, 1, 4)>> \o findall_d4(SubSeq(text, 5, Len(text)))
  ELSE findall_d4(Tail(text))

(***************************************************************************)
(* medline_parser.date_extractor                                           *)
(* journal: [JournalIssue |-> [present, PubDate |-> [present, Year,        *)
(*           Month, Day, MedlineDate]]]                                    *)
(***************************************************************************)
\* lines 330-333: the serialization of the resolved year, month and day
\* seeded fault: the fallback to the year for an unresolved month is forgotten
serialize_pubdate_no_month_check(year, month, day, year_info_only) ==
  IF year_info_only THEN year
  ELSE Join(<<"-">>, FilterNone(<<year, month, day>>))

serialize_pubdate(year, month, day, year_info_only) ==
  IF year_info_only \/ month = None THEN year
  ELSE Join(<<"-">>, FilterNone(<<year, month, day>>))

\* lines 308-328: the year, month and day date_extractor resolves
resolve_pubdate(journal, year_info_only) ==
  IF ~journal.JournalIssue.present THEN Raise("IndexError")
  ELSE IF ~journal.JournalIssue.PubDate.present THEN Raise("AttributeError")
  ELSE
    LET issue_date == journal.JournalIssue.PubDate
        hasYear == issue_date.Year # Absent
        \* month and day are looked up only under a Year element, and the
        \* day only under a Month element
        month == IF hasYear /\ ~year_info_only /\ issue_date.Month # Absent
                 THEN month_or_day_formater(issue_date.Month)
                 ELSE Ret(None)
        day == IF hasYear /\ ~year_info_only /\ issue_date.Month # Absent
                  /\ ~month.raised /\ issue_date.Day # Absent
               THEN month_or_day_formater(issue_date.Day)
               ELSE Ret(None)
        year == IF hasYear THEN Ret(issue_date.Year)
                ELSE IF issue_date.MedlineDate # Absent THEN
                  IF issue_date.MedlineDate = None THEN Raise("TypeError")
                  ELSE IF Len(findall_d4(issue_date.MedlineDate)) >= 1
                  THEN Ret(findall_d4(issue_date.MedlineDate)[1])
                  ELSE Ret(<<>>)
                ELSE Ret(<<>>)
    IN IF year.raised THEN year
       ELSE IF month.raised THEN month
       ELSE IF day.raised THEN day
       ELSE Ret([year |-> year.value, month |-> month.value, day |-> day.value])

date_extractor(journal, year_info_only) ==
  LET resolved == resolve_pubdate(journal, year_info_only)
  IN IF resolved.raised THEN resolved
     ELSE Ret(serialize_pubdate(resolved.value.year, resolved.value.month,
                                resolved.value.day, year_info_only))

Journal(year, month, day, medlineDate) ==
  [JournalIssue |->
     [present |-> TRUE,
      PubDate |-> [present |-> TRUE, Year |-> year, Month |-> month,
                   Day |-> day, MedlineDate |-> medlineDate]],
   Title |-> << <<"J">> >>]

(***************************************************************************)
(* SpecDate: date_extractor applied to one Journal element                 *)
(***************************************************************************)
MaxMedlineDateLen == 5

Y1999 == <<"1", "9", "9", "9">>

MonthTexts == {Absent, None, <<"M", "a", "r">>, <<"3">>, <<"F", "o", "o">>, <<"1", "2">>}

DayTexts == {Absent, None, <<"1", "5">>, <<"5">>, <<"x">>}

MedlineDateTexts == SeqsUpTo({"1", "9", "-"}, MaxMedlineDateLen)

DateInputs ==
  {[journal |-> Journal(y, m, d, md), year_info_only |-> yio] :
     y \in {None, Y1999}, m \in MonthTexts, d \in DayTexts,
     md \in {Absent, <<"1", "9", "9", "8">>}, yio \in BOOLEAN}
  \cup
  {[journal |-> Journal(Absent, m, d, md), year_info_only |-> yio] :
     m \in {Absent, <<"M", "a", "r">>}, d \in {Absent, <<"1", "5">>},
     md \in {Absent, None} \cup MedlineDateTexts, yio \in BOOLEAN}

InitDate ==
  /\ input \in DateInputs
  /\ output = [resolved |-> NotRun, pubdate |-> NotRun]
  /\ pc = "start"

ExtractDate ==
  /\ pc = "start"
  /\ output' = [resolved |-> resolve_pubdate(input.journal, input.year_info_only),
                pubdate |-> date_extractor(input.journal, input.year_info_only)]
  /\ pc' = "done"
  /\ UNCHANGED input

NextDate == ExtractDate

SpecDate == InitDate /\ [][NextDate]_vars

Hyphen == <<"-">>

DateReturned == pc = "done" /\ ~output.pubdate.raised

PubDateOf(in) == in.journal.JournalIssue.PubDate

(***************************************************************************)
(* C5 (as stated): with year_info_only or no resolved month the output is  *)
(* the year alone; otherwise it is year-month-day, the hyphen and day      *)
(* left out when no day was resolved (1999-03-15, 1999-03).                *)
(***************************************************************************)
C5_YearMonthDay ==
  DateReturned =>
    LET r == output.resolved.value
        year == IF r.year = None THEN <<>> ELSE r.year
    IN IF input.year_info_only \/ r.month = None
       THEN output.pubdate.value = r.year
       ELSE output.pubdate.value =
              year \o Hyphen \o r.month
                \o (IF r.day = None THEN <<>> ELSE Hyphen \o r.day)

(***************************************************************************)
(* C5 (amended): as stated, except that a Year element without text is     *)
(* left out together with its hyphen: month 03 and day 15 then give        *)
(* "03-15", month 03 alone gives "03".                                     *)
(***************************************************************************)
C5_PresentComponents ==
  DateReturned =>
    LET r == output.resolved.value
        monthDay == r.month \o (IF r.day = None THEN <<>> ELSE Hyphen \o r.day)
    IN /\ (input.year_info_only \/ r.month = None)
            => output.pubdate.value = r.year
       /\ (~input.year_info_only /\ r.month # None /\ r.year # None)
            => output.pubdate.value = r.year \o Hyphen \o monthDay
       /\ (~input.year_info_only /\ r.month # None /\ r.year = None)
            => output.pubdate.value = monthDay
       \* the examples of the claim
       /\ (PubDateOf(input).Year = Y1999 /\ PubDateOf(input).Month = <<"3">>
             /\ PubDateOf(input).Day = <<"1", "5">>)
            => output.pubdate.value =
                 (IF input.year_info_only THEN Y1999
                  ELSE Y1999 \o <<"-", "0", "3", "-", "1", "5">>)
       /\ (PubDateOf(input).Year = Y1999 /\ PubDateOf(input).Month = <<"3">>
             /\ PubDateOf(input).Day \in {Absent, <<"x">>})
            => output.pubdate.value =
                 (IF input.year_info_only THEN Y1999
                  ELSE Y1999 \o <<"-", "0", "3">>)
       \* a day is never emitted without a month
       /\ (PubDateOf(input).Year = Y1999 /\ PubDateOf(input).Month \in {Absent, <<"F", "o", "o">>})
            => output.pubdate.value = Y1999

C5_Witness ==
  /\ DateReturned
  /\ ~input.year_info_only
  /\ PubDateOf(input).Year = None
  /\ output.resolved.value.month = <<"0", "3">>
  /\ output.resolved.value.day = <<"1", "5">>
  /\ output.pubdate.value = <<"0", "3", "-", "1", "5">>

\* a maximal run of digits of text that starts at i and has exactly n digits
IsMaximalRun(text, i, n) ==
  /\ i >= 1
  /\ i + n - 1 <= Len(text)
  /\ \A k \in i..(i + n - 1) : text[k] \in DigitSet
  /\ (i = 1 \/ text[i - 1] \notin DigitSet)
  /\ (i + n > Len(text) \/ text[i + n] \notin DigitSet)

\* the first run of exactly four digits of text, '' when there is none
FirstFourDigitRun(text) ==
  LET starts == {i \in 1..Len(text) : IsMaximalRun(text, i, 4)}
  IN IF starts = {} THEN <<>>
     ELSE LET first == CHOOSE i \in starts : \A j \in starts : i <= j
          IN SubSeq(text, first, first + 3)

(***************************************************************************)
(* C12: when PubDate has no Year element but a MedlineDate element, the    *)
(* year is the first run of exactly four digits of the MedlineDate text    *)
(* (a maximal run of digits of any other length, such as five digits, is   *)
(* no match), and the empty string when the text has no such run.          *)
(***************************************************************************)
C12_FirstRunOfExactlyFourDigits ==
  (pc = "done" /\ PubDateOf(input).Year = Absent
     /\ PubDateOf(input).MedlineDate \notin {Absent, None}) =>
    /\ ~output.resolved.raised
    /\ output.resolved.value.year = FirstFourDigitRun(PubDateOf(input).MedlineDate)

(***************************************************************************)
(* Helpers for loops and comprehensions over Ret / Raise results           *)
(***************************************************************************)
AnyRaised(rs) == \E i \in 1..Len(rs) : rs[i].raised

\* the exception that ends the loop: the first one raised
FirstRaised(rs) ==
  rs[CHOOSE i \in 1..Len(rs) : rs[i].raised /\ \A j \in 1..(i - 1) : ~rs[j].raised]

Values(rs) == [i \in 1..Len(rs) |-> rs[i].value]

\* attrib.get(name, default)
AttribGet(attr, default) == IF attr = Absent THEN default ELSE attr

\* x or ''
OrEmpty(x) == IF x = None \/ x = <<>> THEN <<>> ELSE x

Semicolon == <<";", " ">>

Colon == <<":">>

(***************************************************************************)
(* Scalar field extractors (medline_parser.py lines 13-284)                *)
(*                                                                         *)
(* An element with a UI / EIdType attribute and text is                    *)
(* [present, UI, text]; a list element is [present, children].             *)
(***************************************************************************)
parse_pmid(medline) ==
  IF medline.PMID # Absent THEN Ret(medline.PMID) ELSE Ret(<<>>)

mesh_term(m) ==
  IF ~m.DescriptorName.present THEN Raise("AttributeError")
  ELSE IF m.DescriptorName.text = None THEN Raise("TypeError")
  ELSE Ret(AttribGet(m.DescriptorName.UI, <<>>) \o Colon \o m.DescriptorName.text)

\* seeded fault: without a MeshHeadingList the result is None, not ''
parse_mesh_terms_absent_none(medline) ==
  IF medline.MeshHeadingList.present THEN
    LET mesh_terms_list ==
          [i \in 1..Len(medline.MeshHeadingList.children) |->
             mesh_term(medline.MeshHeadingList.children[i])]
    IN IF AnyRaised(mesh_terms_list) THEN FirstRaised(mesh_terms_list)
       ELSE Ret(Join(Semicolon, Values(mesh_terms_list)))
  ELSE Ret(None)

parse_mesh_terms(medline) ==
  IF medline.MeshHeadingList.present THEN
    LET mesh_terms_list ==
          [i \in 1..Len(medline.MeshHeadingList.children) |->
             mesh_term(medline.MeshHeadingList.children[i])]
    IN IF AnyRaised(mesh_terms_list) THEN FirstRaised(mesh_terms_list)
       ELSE Ret(Join(Semicolon, Values(mesh_terms_list)))
  ELSE Ret(<<>>)

publication_type_term(publication_type) ==
  IF publication_type.text = None THEN Raise("AttributeError")
  ELSE Ret(AttribGet(publication_type.UI, <<>>) \o Colon
             \o OrEmpty(Strip(publication_type.text)))

parse_publication_types(medline) ==
  LET publication_type_list == medline.Article.PublicationTypeList
      publication_types ==
        IF publication_type_list.present
        THEN [i \in 1..Len(publication_type_list.children) |->
                publication_type_term(publication_type_list.children[i])]
        ELSE <<>>
  IN IF AnyRaised(publication_types) THEN FirstRaised(publication_types)
     ELSE Ret(Join(Semicolon, Values(publication_types)))

parse_keywords(medline) ==
  IF medline.KeywordList.present
  THEN Ret(Join(Semicolon,
                SelectSeq(medline.KeywordList.children, LAMBDA k : k # None)))
  ELSE Ret(<<>>)

chemical_term(chemical) ==
  IF ~chemical.NameOfSubstance.present THEN Raise("AttributeError")
  ELSE IF chemical.NameOfSubstance.text = None THEN Raise("AttributeError")
  ELSE Ret(AttribGet(chemical.NameOfSubstance.UI, <<>>) \o Colon
             \o OrEmpty(Strip(chemical.NameOfSubstance.text)))

parse_chemical_list(medline) ==
  LET chemical_list ==
        IF medline.ChemicalList.present
        THEN [i \in 1..Len(medline.ChemicalList.children) |->
                chemical_term(medline.ChemicalList.children[i])]
        ELSE <<>>
  IN IF AnyRaised(chemical_list) THEN FirstRaised(chemical_list)
     ELSE Ret(Join(Semicolon, Values(chemical_list)))

PMC == <<"P", "M", "C">>

\* pmc after the loop over oids: the text of the last OtherID containing 'PMC'
RECURSIVE last_pmc(_)
last_pmc(oids) ==
  IF oids = <<>> THEN <<>>
  ELSE IF Contains(oids[Len(oids)], PMC) THEN oids[Len(oids)]
  ELSE last_pmc(SubSeq(oids, 1, Len(oids) - 1))

parse_other_id(medline) ==
  LET oids == medline.OtherID
  IN IF \E i \in 1..Len(oids) : oids[i] = None THEN Raise("TypeError")
     ELSE Ret([pmc |-> last_pmc(oids),
               other_id |-> Join(Semicolon,
                                 SelectSeq(oids, LAMBDA t : ~Contains(t, PMC)))])

parse_journal_info(medline) ==
  LET journal_info == medline.MedlineJournalInfo
      textOrEmpty(e) == IF e # Absent THEN OrEmpty(e) ELSE <<>>
      medline_ta == IF journal_info.present THEN textOrEmpty(journal_info.MedlineTA) ELSE <<>>
      nlm_unique_id == IF journal_info.present THEN textOrEmpty(journal_info.NlmUniqueID) ELSE <<>>
      issn_linking == IF journal_info.present /\ journal_info.ISSNLinking # Absent
                      THEN journal_info.ISSNLinking ELSE <<>>
      country == IF journal_info.present THEN textOrEmpty(journal_info.Country) ELSE <<>>
  IN Ret([medline_ta |-> Strip(medline_ta), nlm_unique_id |-> nlm_unique_id,
          issn_linking |-> issn_linking, country |-> country])

DOI == <<"d", "o", "i">>

\* one pass of the loop body of parse_doi
doi_of(e) ==
  IF AttribGet(e.EIdType, <<>>) = DOI THEN
    IF e.text = None THEN Raise("AttributeError") ELSE Ret(OrEmpty(Strip(e.text)))
  ELSE Ret(<<>>)

parse_doi(medline) ==
  IF ~medline.Article.present THEN Raise("AttributeError")
  ELSE
    LET elocation_ids == medline.Article.ELocationID
        passes == [i \in 1..Len(elocation_ids) |-> doi_of(elocation_ids[i])]
    IN IF AnyRaised(passes) THEN FirstRaised(passes)
       ELSE IF Len(elocation_ids) > 0 THEN passes[Len(passes)]
       ELSE Ret(<<>>)

(***************************************************************************)
(* Grant extractor                                                         *)
(***************************************************************************)
grant_dict(pmid, grant) ==
  LET textOf(e) == IF e # Absent THEN e ELSE <<>>
  IN [pmid |-> pmid, grant_id |-> textOf(grant.GrantID),
      grant_acronym |-> textOf(grant.Acronym), country |-> textOf(grant.Country),
      agency |-> textOf(grant.Agency)]

\* seeded fault: the loop over the grants stops one short
parse_grant_id_one_short(medline) ==
  IF ~medline.Article.present THEN Raise("AttributeError")
  ELSE
    LET pmid == parse_pmid(medline).value
        grants == medline.Article.GrantList
    IN IF grants.present
       THEN Ret([i \in 1..(Len(grants.children) - 1) |->
                   grant_dict(pmid, grants.children[i])])
       ELSE Ret(<<>>)

parse_grant_id(medline) ==
  IF ~medline.Article.present THEN Raise("AttributeError")
  ELSE
    LET pmid == parse_pmid(medline).value
        grants == medline.Article.GrantList
    IN IF grants.present
       THEN Ret([i \in 1..Len(grants.children) |-> grant_dict(pmid, grants.children[i])])
       ELSE Ret(<<>>)

(***************************************************************************)
(* Text flattener (utils.stringify_children)                               *)
(*                                                                         *)
(* The content of a node is the sequence of its inline pieces in document  *)
(* order: [tag |-> "text" | "sub" | "sup", text |-> string].  A marker     *)
(* argument is [given |-> FALSE] for None, else the pair [open, close].    *)
(***************************************************************************)
NoMarkers == [given |-> FALSE, open |-> <<>>, close |-> <<>>]

Markers(open, close) == [given |-> TRUE, open |-> open, close |-> close]

piece_text(piece, subscpt, supscpt) ==
  IF subscpt.given \/ supscpt.given THEN
    \* a pair not given defaults to ["", ""]
    IF piece.tag = "sub" THEN subscpt.open \o piece.text \o subscpt.close
    ELSE IF piece.tag = "sup" THEN supscpt.open \o piece.text \o supscpt.close
    ELSE piece.text
  ELSE piece.text

RECURSIVE Concat(_)
Concat(parts) == IF parts = <<>> THEN <<>> ELSE Head(parts) \o Concat(Tail(parts))

stringify_children(node, subscpt, supscpt) ==
  Concat([i \in 1..Len(node) |-> piece_text(node[i], subscpt, supscpt)])

(***************************************************************************)
(* Record assembler (parse_article_info)                                   *)
(***************************************************************************)
UNASSIGNED == <<"U", "N", "A", "S", "S", "I", "G", "N", "E", "D">>

\* seeded fault: the UNASSIGNED label is not filtered out
section_parts_keep_unassigned(abstract, category, subscpt, supscpt, incl_sections) ==
  (IF incl_sections
   THEN << <<"\n">>, AttribGet(abstract[category], <<>>) >>
   ELSE <<>>)
  \o << Strip(stringify_children(abstract.content, subscpt, supscpt)) >>

\* lines 386-392: what one AbstractText section appends to abstract_list
section_parts(abstract, category, subscpt, supscpt, incl_sections) ==
  (IF incl_sections /\ AttribGet(abstract[category], <<>>) # UNASSIGNED
   THEN << <<"\n">>, AttribGet(abstract[category], <<>>) >>
   ELSE <<>>)
  \o << Strip(stringify_children(abstract.content, subscpt, supscpt)) >>

\* lines 379-402: the abstract of an Article
parse_abstract(article, nlm_category, subscpt, supscpt, incl_sections) ==
  LET category == IF nlm_category THEN "NlmCategory" ELSE "Label"
      sections == article.Abstract.AbstractText
      abstract ==
        IF article.Abstract.present /\ Len(sections) >= 1 THEN
          IF Len(sections) > 1
          THEN Strip(Join(<<" ">>,
                 Concat([i \in 1..Len(sections) |->
                   section_parts(sections[i], category, subscpt, supscpt,
                                 incl_sections)])))
          ELSE OrEmpty(Strip(stringify_children(sections[1].content, subscpt, supscpt)))
        ELSE IF article.Abstract.present
        THEN OrEmpty(Strip(stringify_children(article.Abstract.content, subscpt, supscpt)))
        ELSE <<>>
  IN normalize_whitespace(abstract)

\* lines 371-377: the title of an Article
parse_title(article, subscpt, supscpt) ==
  normalize_whitespace(
    IF article.ArticleTitle.present
    THEN OrEmpty(Strip(stringify_children(article.ArticleTitle.content, subscpt, supscpt)))
    ELSE <<>>)

\* lines 404-427: author names and affiliations
author_name(author) ==
  LET textOrEmpty(e) == IF e # Absent THEN OrEmpty(e) ELSE <<>>
  IN Strip(textOrEmpty(author.Initials) \o <<" ">> \o textOrEmpty(author.LastName))

author_affiliation(author) ==
  IF author.Affiliation # Absent THEN OrEmpty(author.Affiliation) ELSE <<>>

parse_authors(article) ==
  IF article.AuthorList.present THEN
    LET authors == article.AuthorList.children
    IN [author |-> Join(Semicolon, [i \in 1..Len(authors) |-> author_name(authors[i])]),
        affiliation |->
          Join(<<"\n">>,
               SelectSeq([i \in 1..Len(authors) |-> author_affiliation(authors[i])],
                         LAMBDA a : a # <<>>))]
  ELSE [author |-> <<>>, affiliation |-> <<>>]

parse_article_info(medline, year_info_only, nlm_category, subscpt, supscpt, incl_sections) ==
  IF ~medline.Article.present THEN Raise("AttributeError")
  ELSE
    LET article == medline.Article
        title == parse_title(article, subscpt, supscpt)
        abstract == parse_abstract(article, nlm_category, subscpt, supscpt, incl_sections)
        authors == parse_authors(article)
        journal_name == Join(<<" ">>, article.Journal.Title)
        pubdate == date_extractor(article.Journal, year_info_only)
        pmid == parse_pmid(medline)
        doi == parse_doi(medline)
        mesh_terms == parse_mesh_terms(medline)
        publication_types == parse_publication_types(medline)
        chemical_list == parse_chemical_list(medline)
        keywords == parse_keywords(medline)
        other_id_dict == parse_other_id(medline)
        journal_info_dict == parse_journal_info(medline)
        \* the calls in the order the function makes them
        calls == <<pubdate, pmid, doi, mesh_terms, publication_types,
                   chemical_list, keywords, other_id_dict, journal_info_dict>>
    IN IF AnyRaised(calls) THEN FirstRaised(calls)
       ELSE Ret([title |-> title,
                 abstract |-> abstract,
                 journal |-> journal_name,
                 author |-> authors.author,
                 affiliation |-> authors.affiliation,
                 pubdate |-> pubdate.value,
                 pmid |-> pmid.value,
                 mesh_terms |-> mesh_terms.value,
                 publication_types |-> publication_types.value,
                 chemical_list |-> chemical_list.value,
                 keywords |-> keywords.value,
                 doi |-> doi.value,
                 delete |-> FALSE,
                 pmc |-> other_id_dict.value.pmc,
                 other_id |-> other_id_dict.value.other_id,
                 medline_ta |-> journal_info_dict.value.medline_ta,
                 nlm_unique_id |-> journal_info_dict.value.nlm_unique_id,
                 issn_linking |-> journal_info_dict.value.issn_linking,
                 country |-> journal_info_dict.value.country])

(***************************************************************************)
(* Batch drivers                                                           *)
(*                                                                         *)
(* tree: [wrapped, MedlineCitation, DeleteCitation]; wrapped says whether  *)
(* the citations are children of a MedlineCitationSet below the root (the  *)
(* first findall path) or not (found by the second path only).             *)
(***************************************************************************)
find_medline_citations(tree) ==
  LET medline_citations == IF tree.wrapped THEN tree.MedlineCitation ELSE <<>>
  IN IF Len(medline_citations) = 0 THEN tree.MedlineCitation
     ELSE medline_citations

\* seeded fault: the stub marks abstract with an empty string
dict_delete_empty_abstract(p) ==
  [title |-> NaN, abstract |-> <<>>, journal |-> NaN, author |-> NaN,
   affiliation |-> NaN, pubdate |-> NaN, pmid |-> p, doi |-> NaN,
   other_id |-> NaN, pmc |-> NaN, mesh_terms |-> NaN, keywords |-> NaN,
   publication_types |-> NaN, chemical_list |-> NaN, delete |-> TRUE,
   medline_ta |-> NaN, nlm_unique_id |-> NaN, issn_linking |-> NaN,
   country |-> NaN]

\* lines 496-516: the record of a deleted citation
dict_delete(p) ==
  [title |-> NaN, abstract |-> NaN, journal |-> NaN, author |-> NaN,
   affiliation |-> NaN, pubdate |-> NaN, pmid |-> p, doi |-> NaN,
   other_id |-> NaN, pmc |-> NaN, mesh_terms |-> NaN, keywords |-> NaN,
   publication_types |-> NaN, chemical_list |-> NaN, delete |-> TRUE,
   medline_ta |-> NaN, nlm_unique_id |-> NaN, issn_linking |-> NaN,
   country |-> NaN]

Unset == <<"unset">>

\* kwargs: the keyword arguments of the call; Unset for one not passed.
\* include_sections is no parameter of parse_medline_xml (line 461): passing
\* it is a TypeError, and parse_article_info runs with its default
\* incl_sections = False.
parse_medline_xml(tree, kwargs) ==
  IF kwargs.include_sections # Unset THEN Raise("TypeError")
  ELSE
    LET year_info_only == IF kwargs.year_info_only = Unset THEN TRUE
                          ELSE kwargs.year_info_only = <<"True">>
        nlm_category == IF kwargs.nlm_category = Unset THEN FALSE
                        ELSE kwargs.nlm_category = <<"True">>
        medline_citations == find_medline_citations(tree)
        article_list ==
          [i \in 1..Len(medline_citations) |->
             parse_article_info(medline_citations[i], year_info_only, nlm_category,
                                kwargs.subscpt, kwargs.supscpt, FALSE)]
        delete_citations == tree.DeleteCitation
    IN IF AnyRaised(article_list) THEN FirstRaised(article_list)
       ELSE Ret(Values(article_list)
                  \o [i \in 1..Len(delete_citations) |-> dict_delete(delete_citations[i])])

parse_medline_grant_id(tree) ==
  LET medline_citations == find_medline_citations(tree)
      grant_id_list == [i \in 1..Len(medline_citations) |->
                          parse_grant_id(medline_citations[i])]
  IN IF AnyRaised(grant_id_list) THEN FirstRaised(grant_id_list)
     ELSE Ret(Concat(Values(grant_id_list)))

(***************************************************************************)
(* Citations the specifications draw from                                  *)
(***************************************************************************)
NoList == [present |-> FALSE, children |-> <<>>]

List(children) == [present |-> TRUE, children |-> children]

\* an element with a UI attribute and text; NoElement when find() gives None
Named(ui, text) == [present |-> TRUE, UI |-> ui, text |-> text]

NoElement == [present |-> FALSE, UI |-> Absent, text |-> None]

ELocationID(type, text) == [EIdType |-> type, text |-> text]

Text(s) == [tag |-> "text", text |-> s]

Section(label, nlmCategory, content) ==
  [Label |-> label, NlmCategory |-> nlmCategory, content |-> content]

NoJournalInfo ==
  [present |-> FALSE, MedlineTA |-> Absent, NlmUniqueID |-> Absent,
   ISSNLinking |-> Absent, Country |-> Absent]

JournalInfo(ta, id, issn, country) ==
  [present |-> TRUE, MedlineTA |-> ta, NlmUniqueID |-> id,
   ISSNLinking |-> issn, Country |-> country]

NoAbstract == [present |-> FALSE, AbstractText |-> <<>>, content |-> <<>>]

Grant(id) ==
  [GrantID |-> id, Acronym |-> <<"H", "L">>, Agency |-> Absent, Country |-> None]

BaseArticle ==
  [present |-> TRUE,
   ArticleTitle |->
     [present |-> TRUE,
      content |-> <<Text(<<" ", "H">>), [tag |-> "sub", text |-> <<"2">>],
                    Text(<<"O", "U+00A0", " ", "x", "\n">>)>>],
   Abstract |-> NoAbstract,
   AuthorList |->
     List(<<[Initials |-> <<"A">>, LastName |-> <<"B">>, Affiliation |-> Absent],
            [Initials |-> Absent, LastName |-> <<"C">>, Affiliation |-> <<"U">>]>>),
   Journal |-> Journal(Y1999, <<"M", "a", "r">>, Absent, Absent),
   ELocationID |-> <<>>,
   GrantList |-> NoList,
   PublicationTypeList |-> NoList]

BaseCitation ==
  [PMID |-> <<"1">>,
   MeshHeadingList |-> NoList,
   KeywordList |-> NoList,
   ChemicalList |-> NoList,
   OtherID |-> <<>>,
   MedlineJournalInfo |-> NoJournalInfo,
   Article |-> BaseArticle]

(***************************************************************************)
(* SpecExtract: one scalar field extractor applied to one citation         *)
(***************************************************************************)
MaxEntries == 2

UiTextElements ==
  {Named(<<"D", "1">>, <<"m", " ">>), Named(Absent, <<"n">>),
   Named(<<"D", "1">>, None), Named(<<"D", "2">>, <<" ">>)}

MeshHeadings == {[DescriptorName |-> e] : e \in UiTextElements \cup {NoElement}}

Chemicals == {[NameOfSubstance |-> e] : e \in UiTextElements \cup {NoElement}}

KeywordTexts == {<<"k">>, <<"w">>, None}

OtherIDTexts == {<<"P", "M", "C", "1">>, <<"x", "P", "M", "C">>, <<"N", "7">>, None}

PII == <<"p", "i", "i">>

ELocationIDs ==
  {ELocationID(DOI, <<"1", "0", ".", "1", "/", "x">>),
   ELocationID(PII, <<"A", "B", "C">>),
   ELocationID(DOI, <<" ", "1", "0", "/", "y", "\n">>),
   ELocationID(DOI, None), ELocationID(PII, None),
   ELocationID(Absent, <<"z">>)}

LeafTexts == {Absent, None, <<" ", "t">>}

JournalInfos ==
  {NoJournalInfo}
  \cup {JournalInfo(ta, id, issn, country) :
          ta \in LeafTexts, id \in LeafTexts, issn \in LeafTexts, country \in LeafTexts}

ExtractInputs ==
  {[BaseCitation EXCEPT !.PMID = t] : t \in {Absent, None, <<"1", "2">>}}
  \cup {[BaseCitation EXCEPT !.MeshHeadingList = List(l)] : l \in SeqsUpTo(MeshHeadings, MaxEntries)}
  \cup {[BaseCitation EXCEPT !.Article.PublicationTypeList = List(l)] :
          l \in SeqsUpTo(UiTextElements, MaxEntries)}
  \cup {[BaseCitation EXCEPT !.KeywordList = List(l)] : l \in SeqsUpTo(KeywordTexts, MaxEntries)}
  \cup {[BaseCitation EXCEPT !.ChemicalList = List(l)] : l \in SeqsUpTo(Chemicals, MaxEntries)}
  \cup {[BaseCitation EXCEPT !.OtherID = l] : l \in SeqsUpTo(OtherIDTexts, MaxEntries)}
  \cup {[BaseCitation EXCEPT !.Article.ELocationID = l] : l \in SeqsUpTo(ELocationIDs, MaxEntries)}
  \cup {[BaseCitation EXCEPT !.MedlineJournalInfo = j] : j \in JournalInfos}

InitExtract ==
  /\ input \in ExtractInputs
  /\ output = [extractor |-> "none", result |-> NotRun]
  /\ pc = "start"

ParsePmid ==
  /\ pc = "start"
  /\ output' = [extractor |-> "parse_pmid", result |-> parse_pmid(input)]
  /\ pc' = "done"
  /\ UNCHANGED input

ParseMeshTerms ==
  /\ pc = "start"
  /\ output' = [extractor |-> "parse_mesh_terms", result |-> parse_mesh_terms(input)]
  /\ pc' = "done"
  /\ UNCHANGED input

ParsePublicationTypes ==
  /\ pc = "start"
  /\ output' = [extractor |-> "parse_publication_types", result |-> parse_publication_types(input)]
  /\ pc' = "done"
  /\ UNCHANGED input

ParseKeywords ==
  /\ pc = "start"
  /\ output' = [extractor |-> "parse_keywords", result |-> parse_keywords(input)]
  /\ pc' = "done"
  /\ UNCHANGED input

ParseChemicalList ==
  /\ pc = "start"
  /\ output' = [extractor |-> "parse_chemical_list", result |-> parse_chemical_list(input)]
  /\ pc' = "done"
  /\ UNCHANGED input

ParseOtherId ==
  /\ pc = "start"
  /\ output' = [extractor |-> "parse_other_id", result |-> parse_other_id(input)]
  /\ pc' = "done"
  /\ UNCHANGED input

ParseDoi ==
  /\ pc = "start"
  /\ output' = [extractor |-> "parse_doi", result |-> parse_doi(input)]
  /\ pc' = "done"
  /\ UNCHANGED input

ParseJournalInfo ==
  /\ pc = "start"
  /\ output' = [extractor |-> "parse_journal_info", result |-> parse_journal_info(input)]
  /\ pc' = "done"
  /\ UNCHANGED input

NextExtract ==
  \/ ParsePmid
  \/ ParseMeshTerms
  \/ ParsePublicationTypes
  \/ ParseKeywords
  \/ ParseChemicalList
  \/ ParseOtherId
  \/ ParseDoi
  \/ ParseJournalInfo

SpecExtract == InitExtract /\ [][NextExtract]_vars

\* the text or attribute of a sub-field, an empty string when it is missing
OrBlank(x) == IF x = None \/ x = Absent THEN <<>> ELSE x

UiText(e) == OrBlank(e.UI) \o <<":">> \o OrBlank(e.text)

UiStrippedText(e) == OrBlank(e.UI) \o <<":">> \o Strip(OrBlank(e.text))

ExtractorDone(name) == pc = "done" /\ output.extractor = name

(***************************************************************************)
(* C3: on a citation with an Article node no scalar field extractor fails, *)
(* whatever sub-elements, attributes or texts are absent; a list entry     *)
(* whose required sub-element or text is absent gets an empty string for   *)
(* that sub-field and extraction continues.                                *)
(***************************************************************************)
C3_NeverFails ==
  (pc = "done" /\ input.Article.present) =>
    /\ ~output.result.raised
    /\ (output.extractor = "parse_mesh_terms" /\ input.MeshHeadingList.present) =>
         output.result.value =
           Join(<<";", " ">>,
                [i \in 1..Len(input.MeshHeadingList.children) |->
                   UiText(input.MeshHeadingList.children[i].DescriptorName)])
    /\ (output.extractor = "parse_chemical_list" /\ input.ChemicalList.present) =>
         output.result.value =
           Join(<<";", " ">>,
                [i \in 1..Len(input.ChemicalList.children) |->
                   UiStrippedText(input.ChemicalList.children[i].NameOfSubstance)])
    /\ (output.extractor = "parse_publication_types"
          /\ input.Article.PublicationTypeList.present) =>
         output.result.value =
           Join(<<";", " ">>,
                [i \in 1..Len(input.Article.PublicationTypeList.children) |->
                   UiStrippedText(input.Article.PublicationTypeList.children[i])])
    /\ output.extractor = "parse_other_id" =>
         output.result.value.other_id =
           Join(<<";", " ">>,
                SelectSeq([i \in 1..Len(input.OtherID) |-> OrBlank(input.OtherID[i])],
                          LAMBDA t : ~Contains(t, PMC)))

(***************************************************************************)
(* C6: parse_doi returns the stripped text of the last ELocationID if its  *)
(* EIdType is "doi", else the empty string (also without any ELocationID); *)
(* a doi entry followed by a pii entry gives the empty string.             *)
(***************************************************************************)
C6_LastElementWins ==
  ExtractorDone("parse_doi") =>
    LET es == input.Article.ELocationID
    IN /\ (Len(es) = 0 \/ es[Len(es)].EIdType # DOI) => output.result = Ret(<<>>)
       /\ (Len(es) > 0 /\ es[Len(es)].EIdType = DOI /\ es[Len(es)].text # None) =>
            output.result = Ret(Strip(es[Len(es)].text))

EmptyJournalInfo ==
  [medline_ta |-> <<>>, nlm_unique_id |-> <<>>, issn_linking |-> <<>>,
   country |-> <<>>]

(***************************************************************************)
(* C11: an extractor whose target element is absent from the citation      *)
(* returns exactly the empty string: parse_mesh_terms without              *)
(* MeshHeadingList, parse_pmid without PMID, parse_publication_types       *)
(* without Article/PublicationTypeList, parse_keywords without             *)
(* KeywordList, parse_chemical_list without ChemicalList, parse_other_id   *)
(* without any OtherID (pmc and other_id both empty), parse_doi without    *)
(* any ELocationID under Article, and parse_journal_info without           *)
(* MedlineJournalInfo (all four fields empty).                             *)
(***************************************************************************)
C11_AbsentTargetEmpty ==
  /\ (ExtractorDone("parse_mesh_terms") /\ ~input.MeshHeadingList.present) =>
       output.result = Ret(<<>>)
  /\ (ExtractorDone("parse_pmid") /\ input.PMID = Absent) =>
       output.result = Ret(<<>>)
  /\ (ExtractorDone("parse_publication_types")
        /\ ~input.Article.PublicationTypeList.present) =>
       output.result = Ret(<<>>)
  /\ (ExtractorDone("parse_keywords") /\ ~input.KeywordList.present) =>
       output.result = Ret(<<>>)
  /\ (ExtractorDone("parse_chemical_list") /\ ~input.ChemicalList.present) =>
       output.result = Ret(<<>>)
  /\ (ExtractorDone("parse_other_id") /\ input.OtherID = <<>>) =>
       output.result = Ret([pmc |-> <<>>, other_id |-> <<>>])
  /\ (ExtractorDone("parse_doi") /\ input.Article.present
        /\ input.Article.ELocationID = <<>>) =>
       output.result = Ret(<<>>)
  /\ (ExtractorDone("parse_journal_info") /\ ~input.MedlineJournalInfo.present) =>
       output.result = Ret(EmptyJournalInfo)

\* parse_mesh_terms on a citation that has keywords but no MeshHeadingList
C11_Witness ==
  /\ ExtractorDone("parse_mesh_terms")
  /\ ~input.MeshHeadingList.present
  /\ input.KeywordList = List(<<<<"k">>, <<"w">>>>)
  /\ output.result = Ret(<<>>)

(***************************************************************************)
(* SpecArticle: parse_article_info applied to one citation                 *)
(***************************************************************************)
MaxSections == 3

INTRODUCTION == <<"I", "N", "T", "R", "O", "D", "U", "C", "T", "I", "O", "N">>

RESULTS == <<"R", "E", "S", "U", "L", "T", "S">>

BACKGROUND == <<"B", "A", "C", "K", "G", "R", "O", "U", "N", "D">>

AbstractSections ==
  {Section(INTRODUCTION, BACKGROUND, <<Text(<<"a">>)>>),
   Section(UNASSIGNED, UNASSIGNED, <<Text(<<" ", "u", "U+00A0", " ", "v">>)>>),
   Section(RESULTS, UNASSIGNED, <<Text(<<"r">>), [tag |-> "sup", text |-> <<"2">>]>>),
   Section(Absent, Absent, <<Text(<<"n", " ">>)>>),
   Section(RESULTS, RESULTS, <<>>)}

Abstracts ==
  {NoAbstract, [present |-> TRUE, AbstractText |-> <<>>, content |-> <<Text(<<"p", " ">>)>>]}
  \cup {[present |-> TRUE, AbstractText |-> l, content |-> <<>>] :
          l \in SeqsUpTo(AbstractSections, MaxSections) \ {<<>>}}

ArticleInputs ==
  {[medline |-> [BaseCitation EXCEPT !.Article.Abstract = a, !.OtherID = o],
    year_info_only |-> TRUE, nlm_category |-> nlm,
    subscpt |-> sub, supscpt |-> NoMarkers, incl_sections |-> incl] :
     a \in Abstracts, o \in {<<>>, <<None>>}, nlm \in BOOLEAN,
     sub \in {NoMarkers, Markers(<<"[">>, <<"]">>)}, incl \in BOOLEAN}

InitArticle ==
  /\ input \in ArticleInputs
  /\ output = [abstract |-> None, dict_out |-> NotRun]
  /\ pc = "start"

\* abstract: the local variable after line 402; dict_out: the value returned
ParseArticleInfo ==
  /\ pc = "start"
  /\ output' =
       [abstract |-> parse_abstract(input.medline.Article, input.nlm_category,
                                    input.subscpt, input.supscpt, input.incl_sections),
        dict_out |-> parse_article_info(input.medline, input.year_info_only,
                                        input.nlm_category, input.subscpt,
                                        input.supscpt, input.incl_sections)]
  /\ pc' = "done"
  /\ UNCHANGED input

NextArticle == ParseArticleInfo

SpecArticle == InitArticle /\ [][NextArticle]_vars

\* the words of a text: its maximal runs of characters other than spaces
RECURSIVE Words(_)
Words(s) ==
  IF s = <<>> THEN <<>>
  ELSE IF Head(s) \in {" ", "U+00A0"} THEN Words(Tail(s))
  ELSE LET n == CHOOSE k \in 1..Len(s) :
                  /\ \A i \in 1..k : s[i] \notin {" ", "U+00A0"}
                  /\ (k = Len(s) \/ s[k + 1] \in {" ", "U+00A0"})
       IN <<SubSeq(s, 1, n)>> \o Words(SubSeq(s, n + 1, Len(s)))

\* the text of a section as its pieces say it, inline markup unwrapped
SectionText(section) ==
  Concat([i \in 1..Len(section.content) |->
            IF section.content[i].tag = "sub" /\ input.subscpt.given
            THEN input.subscpt.open \o section.content[i].text \o input.subscpt.close
            ELSE section.content[i].text])

SectionLabel(section) ==
  OrBlank(IF input.nlm_category THEN section.NlmCategory ELSE section.Label)

SectionsOf(in) == in.medline.Article.Abstract.AbstractText

LabelsOf(in) == [i \in 1..Len(SectionsOf(in)) |-> in.medline.Article.Abstract.AbstractText[i].Label]

MaxCitations == 2

MaxDeletes == 2

LabelledAbstract ==
  [present |-> TRUE, content |-> <<>>,
   AbstractText |->
     <<Section(INTRODUCTION, BACKGROUND, <<Text(<<"a">>)>>),
       Section(RESULTS, RESULTS, <<Text(<<"r">>)>>)>>]

\* a citation without grants, one with two grants and a structured abstract,
\* one with a grant and an OtherID without text
CitationShapes ==
  {BaseCitation,
   [BaseCitation EXCEPT !.Article.GrantList = List(<<Grant(<<"G", "1">>), Grant(<<"G", "2">>)>>),
                        !.Article.Abstract = LabelledAbstract],
   [BaseCitation EXCEPT !.Article.GrantList = List(<<Grant(<<"G", "3">>)>>),
                        !.OtherID = <<None>>]}

Citations == {[c EXCEPT !.PMID = p] : c \in CitationShapes, p \in {<<"1">>, <<"2">>}}

DeletedPMIDs == {<<"7">>, <<"1", "2", "3", "4", "5">>}

Trees ==
  {[wrapped |-> w, MedlineCitation |-> cs, DeleteCitation |-> ds] :
     w \in BOOLEAN, cs \in SeqsUpTo(Citations, MaxCitations),
     ds \in SeqsUpTo(DeletedPMIDs, MaxDeletes)}

PyTrue == <<"True">>

PyFalse == <<"False">>

NoKwargs ==
  [year_info_only |-> Unset, nlm_category |-> Unset, subscpt |-> NoMarkers,
   supscpt |-> NoMarkers, include_sections |-> Unset]

Kwargs ==
  {[NoKwargs EXCEPT !.nlm_category = nlm, !.include_sections = incl] :
     nlm \in {Unset, PyTrue}, incl \in {Unset, PyTrue, PyFalse}}

Init ==
  /\ input \in {[tree |-> t, kwargs |-> NoKwargs] : t \in Trees}
  /\ output = [article_list |-> NotRun, grant_id_list |-> NotRun]
  /\ pc = "start"

ParseMedlineXml ==
  /\ pc = "start"
  /\ \E kwargs \in Kwargs :
       /\ input' = [input EXCEPT !.kwargs = kwargs]
       /\ output' = [output EXCEPT !.article_list = parse_medline_xml(input.tree, kwargs)]
  /\ pc' = "parsed"

ParseMedlineGrantId ==
  /\ pc = "start"
  /\ output' = [output EXCEPT !.grant_id_list = parse_medline_grant_id(input.tree)]
  /\ pc' = "grants"
  /\ UNCHANGED input

Next == ParseMedlineXml \/ ParseMedlineGrantId

Spec == Init /\ [][Next]_vars

CitationsOf(in) == in.tree.MedlineCitation

NoticesOf(in) == in.tree.DeleteCitation

Parsed == pc = "parsed"

(***************************************************************************)
(* C1: for a document with N MedlineCitation nodes and M deletion notices  *)
(* parse_medline_xml returns N + M records: first the N live records       *)
(* (delete = false) in document order, then the M stubs (delete = true) in *)
(* the order of the notices.                                               *)
(***************************************************************************)
C1_OneRecordPerNode ==
  (Parsed /\ input.kwargs.include_sections = Unset) =>
    LET N == Len(CitationsOf(input))
        M == Len(NoticesOf(input))
        article_list == output.article_list
    IN /\ ~article_list.raised
       /\ Len(article_list.value) = N + M
       /\ \A i \in 1..N :
            /\ article_list.value[i].delete = FALSE
            /\ article_list.value[i].pmid = CitationsOf(input)[i].PMID
       /\ \A j \in 1..M :
            /\ article_list.value[N + j].delete = TRUE
            /\ article_list.value[N + j].pmid = NoticesOf(input)[j]

StubFields ==
  {"title", "abstract", "journal", "author", "affiliation", "pubdate", "doi",
   "other_id", "pmc", "mesh_terms", "keywords", "publication_types",
   "chemical_list", "medline_ta", "nlm_unique_id", "issn_linking", "country"}

(***************************************************************************)
(* C2: the stub emitted for a deletion notice with text t has pmid = t,    *)
(* delete = true, and each of the other 17 fields equal to the             *)
(* missing-value marker, never an empty string.                            *)
(***************************************************************************)
C2_StubIsAllMissing ==
  (Parsed /\ ~output.article_list.raised) =>
    \A j \in 1..Len(NoticesOf(input)) :
      LET stub == output.article_list.value[Len(CitationsOf(input)) + j]
      IN /\ stub.pmid = NoticesOf(input)[j]
         /\ stub.delete = TRUE
         /\ Cardinality(StubFields) = 17
         /\ \A f \in StubFields : stub[f] = NaN /\ stub[f] # <<>>

C2_Witness ==
  /\ Parsed
  /\ ~output.article_list.raised
  /\ Len(CitationsOf(input)) = 1
  /\ NoticesOf(input) = << <<"1", "2", "3", "4", "5">>, <<"7">> >>
  /\ output.article_list.value[2].pmid = <<"1", "2", "3", "4", "5">>
  /\ output.article_list.value[2].delete
  /\ output.article_list.value[3].title = NaN

\* the labels of a citation's AbstractText sections
SectionLabels(medline) ==
  [k \in 1..Len(medline.Article.Abstract.AbstractText) |->
     OrBlank(medline.Article.Abstract.AbstractText[k].Label)]

(***************************************************************************)
(* C8: parse_medline_xml recognizes include_sections: called with          *)
(* include_sections = true, the abstract of every record of a citation     *)
(* with several labelled sections carries the labels; with false no label  *)
(* is emitted.                                                             *)
(***************************************************************************)
C8_IncludeSectionsRecognized ==
  (Parsed /\ input.kwargs.include_sections # Unset) =>
    /\ ~output.article_list.raised
    /\ \A i \in 1..Len(CitationsOf(input)) :
         \A k \in 1..Len(SectionLabels(CitationsOf(input)[i])) :
           Len(SectionLabels(CitationsOf(input)[i])) > 1 =>
             (input.kwargs.include_sections = PyTrue
                <=> Contains(output.article_list.value[i].abstract,
                             SectionLabels(CitationsOf(input)[i])[k]))

\* the number of grants of the first n citations
RECURSIVE GrantsBefore(_, _)
GrantsBefore(cs, n) ==
  IF n = 0 THEN 0
  ELSE GrantsBefore(cs, n - 1) + Len(cs[n].Article.GrantList.children)

(***************************************************************************)
(* C10: parse_medline_grant_id returns one GrantRecord per child of        *)
(* Article/GrantList per citation, each with the pmid of its citation, in  *)
(* citation order and, within a citation, in document order; a citation    *)
(* without GrantList contributes none.                                     *)
(***************************************************************************)
C10_GrantsInDocumentOrder ==
  pc = "grants" =>
    LET cs == CitationsOf(input)
        grant_id_list == output.grant_id_list
    IN /\ ~grant_id_list.raised
       /\ Len(grant_id_list.value) = GrantsBefore(cs, Len(cs))
       /\ \A i \in 1..Len(cs) :
            \A j \in 1..Len(cs[i].Article.GrantList.children) :
              LET g == grant_id_list.value[GrantsBefore(cs, i - 1) + j]
              IN /\ g.pmid = cs[i].PMID
                 /\ g.grant_id = cs[i].Article.GrantList.children[j].GrantID
                 /\ g.grant_acronym = cs[i].Article.GrantList.children[j].Acronym

C10_Witness ==
  /\ pc = "grants"
  /\ Len(CitationsOf(input)) = 2
  /\ ~CitationsOf(input)[1].Article.GrantList.present
  /\ CitationsOf(input)[1].PMID = <<"1">>
  /\ Len(CitationsOf(input)[2].Article.GrantList.children) = 2
  /\ Len(output.grant_id_list.value) = 2
  /\ output.grant_id_list.value[1].pmid = <<"2">>
  /\ output.grant_id_list.value[2].grant_id = <<"G", "2">>

====
